---- MODULE Spec2Model ----
(***************************************************************************)
(* A model of bot.py: the Telegram order bot.  A text is a sequence of     *)
(* one-character strings.  Georgian letters are written "ga", "gb", ...    *)
(* (one symbol per letter), Latin letters and digits as themselves.        *)
(***************************************************************************)
EXTENDS Integers, Sequences, FiniteSets, TLC

\* ------------------------------------------------------------ bounds
\* How many updates the dispatcher delivers in one run.
MaxMessages == 2
\* Longest string drawn for a cell value handed to update_google_sheet.
MaxLen == 3

\* ------------------------------------------------------------ characters
\* Whitespace as str.strip() and the regex class \s see it.
Whitespace == {" ", "\n", "\r", "\t"}
\* The regex range [ა-ჰ]; the letters of the units კგ, ც, ლ, გრამი are in it.
Georgian == {"ga", "gb", "gg", "gk", "gc", "gl", "gr", "gm", "gi"}
Digits == {"0", "1", "2", "5"}

\* str.lower() on the letters the model uses.
lower_char(c) ==
  CASE c = "N" -> "n"
    [] c = "E" -> "e"
    [] c = "W" -> "w"
    [] OTHER -> c

lower(s) == [i \in 1..Len(s) |-> lower_char(s[i])]

startswith(s, prefix) ==
  /\ Len(s) >= Len(prefix)
  /\ SubSeq(s, 1, Len(prefix)) = prefix

\* s[n:] of Python, n counted from 0.
slice_from(s, n) == SubSeq(s, n + 1, Len(s))

RECURSIVE lstrip(_)
lstrip(s) ==
  IF s # <<>> /\ Head(s) \in Whitespace THEN lstrip(Tail(s)) ELSE s

RECURSIVE rstrip(_)
rstrip(s) ==
  IF s # <<>> /\ s[Len(s)] \in Whitespace
  THEN rstrip(SubSeq(s, 1, Len(s) - 1))
  ELSE s

strip(s) == rstrip(lstrip(s))

\* str.replace(old, new) for a one-character old and a new of length 0 or 1.
RECURSIVE replace(_, _, _)
replace(s, old, new) ==
  IF s = <<>> THEN <<>>
  ELSE (IF Head(s) = old THEN new ELSE <<Head(s)>>) \o replace(Tail(s), old, new)

\* message.split(".")[0]: the text before the first "."; all of it when
\* there is none.
RECURSIVE split_first(_, _)
split_first(s, sep) ==
  IF s = <<>> \/ Head(s) = sep THEN <<>>
  ELSE <<Head(s)>> \o split_first(Tail(s), sep)

\* ", ".join(...) is not modelled: the prompt is represented by the lists
\* it embeds.

\* ------------------------------------------------------------ sanitize
sanitize_unstripped(value) ==
  replace(replace(replace(value, "\n", <<" ">>), "\r", <<>>), "\t", <<>>)

sanitize(value) ==
  replace(replace(replace(strip(value), "\n", <<" ">>), "\r", <<>>), "\t", <<>>)

\* ------------------------------------------------------------ re.findall
\* The product pattern of handle_message,
\*   (new\s*)?([ა-ჰ\s]+)\s+(\d+)\s*(კგ|ც|ლ|გრამი)?
\* matched the way a backtracking engine matches it.  Positions count from 1.
NameClass == Georgian \cup Whitespace

\* The first position at or after p whose character is not in cls.
RECURSIVE run_end(_, _, _)
run_end(s, p, cls) ==
  IF p <= Len(s) /\ s[p] \in cls THEN run_end(s, p + 1, cls) ELSE p

\* Length of the unit alternative found at position w (0: none), the
\* alternatives tried in the pattern's order.
unit_len(s, w) ==
  LET at(k) == IF w + k <= Len(s) THEN s[w + k] ELSE "" IN
  CASE at(0) = "gk" /\ at(1) = "gg" -> 2
    [] at(0) = "gc" -> 1
    [] at(0) = "gl" -> 1
    [] at(0) = "gg" /\ at(1) = "gr" /\ at(2) = "ga" /\ at(3) = "gm" /\ at(4) = "gi" -> 5
    [] OTHER -> 0

\* ([ა-ჰ\s]+)\s+(\d+)\s*(unit)? with group 2 starting at p.  Group 2 is
\* greedy and gives back exactly one whitespace character to \s+.
match_body(s, p) ==
  LET q == run_end(s, p, NameClass)
      ok == /\ q - p >= 2
            /\ s[q - 1] \in Whitespace
            /\ q <= Len(s)
            /\ s[q] \in Digits
      d == run_end(s, q, Digits)
      w == run_end(s, d, Whitespace)
  IN [ok |-> ok,
      name |-> IF ok THEN SubSeq(s, p, q - 2) ELSE <<>>,
      end |-> IF ok THEN w + unit_len(s, w) ELSE p]

\* Group 1 present with k whitespace characters after "new", the largest k
\* first; -1 when no k lets the rest match.
RECURSIVE best_new(_, _, _)
best_new(s, i, k) ==
  IF k < 0 THEN -1
  ELSE IF match_body(s, i + 3 + k).ok THEN k
  ELSE best_new(s, i, k - 1)

\* A match starting at position i: group 1, group 2 and the position after it.
match_at(s, i) ==
  LET hasNew == i + 2 <= Len(s) /\ SubSeq(s, i, i + 2) = <<"n", "e", "w">>
      kmax == run_end(s, i + 3, Whitespace) - (i + 3)
      k == IF hasNew THEN best_new(s, i, kmax) ELSE -1
  IN IF k >= 0
     THEN LET b == match_body(s, i + 3 + k)
          IN [ok |-> TRUE, new |-> SubSeq(s, i, i + 2 + k), name |-> b.name, end |-> b.end]
     ELSE LET b == match_body(s, i)
          IN [ok |-> b.ok, new |-> <<>>, name |-> b.name, end |-> b.end]

\* re.findall: the non-overlapping matches, leftmost first; p[0] is new, p[1] is name.
RECURSIVE findall_from(_, _)
findall_from(s, i) ==
  IF i > Len(s) THEN <<>>
  ELSE LET m == match_at(s, i)
       IN IF m.ok
          THEN <<[new |-> m.new, name |-> m.name]>> \o findall_from(s, m.end)
          ELSE findall_from(s, i + 1)

findall(s) == findall_from(s, 1)

\* ------------------------------------------------------------ rapidfuzz
\* The scorer of rapidfuzz (WRatio) is library code.  What the model keeps of
\* it: a score is an integer in 0..100, an empty string scores 0 against
\* anything, a string scores 100 against itself, and equal strings get equal
\* scores.  A score table sc gives the score of known_list[i] at sc[i].
OtherScores == {0, 49, 50, 90}

ScoreTables(term, known_list) ==
  {sc \in [1..Len(known_list) -> OtherScores \cup {100}] :
     \A i \in 1..Len(known_list) :
       /\ (term = <<>> \/ known_list[i] = <<>>) => sc[i] = 0
       /\ (term # <<>> /\ known_list[i] = term) => sc[i] = 100
       /\ (term # <<>> /\ known_list[i] # term) => sc[i] # 100
       /\ \A j \in 1..Len(known_list) : known_list[i] = known_list[j] => sc[i] = sc[j]}

\* The index of the best remaining choice: highest score, earliest on ties.
best_index(sc, remaining) ==
  CHOOSE i \in remaining :
    \A j \in remaining : sc[i] > sc[j] \/ (sc[i] = sc[j] /\ i <= j)

\* process.extract(term, known_list, limit=...): the limit best choices as
\* (entry, score) pairs, best first.
RECURSIVE extract_from(_, _, _, _)
extract_from(sc, known_list, remaining, limit) ==
  IF remaining = {} \/ limit = 0 THEN <<>>
  ELSE LET i == best_index(sc, remaining)
       IN <<[entry |-> known_list[i], score |-> sc[i]]>>
          \o extract_from(sc, known_list, remaining \ {i}, limit - 1)

extract(sc, known_list, limit) ==
  extract_from(sc, known_list, 1..Len(known_list), limit)

\* process.extractOne(term, known_list): the best choice, or nothing for an
\* empty list.
extractOne(sc, known_list) ==
  IF known_list = <<>> THEN [found |-> FALSE, entry |-> <<>>, score |-> 0]
  ELSE LET i == best_index(sc, 1..Len(known_list))
       IN [found |-> TRUE, entry |-> known_list[i], score |-> sc[i]]

Threshold == 50
ShortlistLimit == 5

RECURSIVE keep_scored(_)
keep_scored(pairs) ==
  IF pairs = <<>> THEN <<>>
  ELSE (IF Head(pairs).score >= Threshold THEN <<Head(pairs).entry>> ELSE <<>>)
       \o keep_scored(Tail(pairs))

\* A shortlist taken from all the choices instead of the best five.
get_shortlist_unlimited(sc, known_list) ==
  keep_scored(extract(sc, known_list, Len(known_list)))

\* get_shortlist(term, known_list), the scorer's answers for this call in sc.
get_shortlist(sc, known_list) ==
  keep_scored(extract(sc, known_list, ShortlistLimit))

\* fuzzy_match(term, known_list): unpacking the None that extractOne returns
\* for an empty list raises TypeError.
fuzzy_match(sc, known_list) ==
  LET r == extractOne(sc, known_list)
  IN IF ~r.found THEN [kind |-> "raise", value |-> <<>>]
     ELSE IF r.score >= Threshold THEN [kind |-> "match", value |-> r.entry]
     ELSE [kind |-> "None", value |-> <<>>]

\* ------------------------------------------------------------ files
\* A reference file is its text.  load_list_from_file reads it line by line
\* (universal newlines), strips each line and drops the blank ones; an
\* unreadable file gives the empty list.
RECURSIVE lines_of(_, _)
lines_of(text, cur) ==
  IF text = <<>> THEN <<cur>>
  ELSE IF Head(text) \in {"\n", "\r"} THEN <<cur>> \o lines_of(Tail(text), <<>>)
  ELSE lines_of(Tail(text), Append(cur, Head(text)))

RECURSIVE stripped_nonblank(_)
stripped_nonblank(ls) ==
  IF ls = <<>> THEN <<>>
  ELSE (IF strip(Head(ls)) # <<>> THEN <<strip(Head(ls))>> ELSE <<>>)
       \o stripped_nonblank(Tail(ls))

load_list_from_file(file) ==
  IF file.readable THEN stripped_nonblank(lines_of(file.text, <<>>)) ELSE <<>>

\* append_to_file(file, item): the write may fail; the failure is logged and
\* swallowed.
append_to_file(file, item, ok) ==
  IF ok THEN [file EXCEPT !.text = @ \o strip(item) \o <<"\n">>] ELSE file

\* ------------------------------------------------------------ dicts
\* dict.get(key, default) and dict.setdefault(key, default) on an entry, a
\* function from field names to texts.
dict_get(d, key, default) == IF key \in DOMAIN d THEN d[key] ELSE default

setdefault(d, key, default) ==
  IF key \in DOMAIN d THEN d
  ELSE [k \in DOMAIN d \cup {key} |-> IF k = key THEN default ELSE d[k]]

\* ------------------------------------------------------------ the LLM
\* What one chat.completions.create call can do: raise, or return a content
\* that is prose, a JSON document wrapped in a markdown fence, or a JSON
\* document.  A JSON document is a list (its elements objects or scalars), an
\* object, or a number.
Entry1 ==
  [customer |-> <<"ga">>, product |-> <<"gb">>,
   amount_value |-> <<"5">>, amount_unit |-> <<"gk", "gg">>]
Entry2 ==
  [customer |-> <<>>, product |-> <<" ", "gb", "\n", "gc", "\t">>,
   amount_value |-> <<"1">>, comment |-> <<"\r", "ga", " ">>]
Entry3 ==
  [product |-> <<>>, amount_value |-> <<"2">>, amount_unit |-> <<"gc">>]

Obj(d) == [obj |-> TRUE, d |-> d]
Scalar == [obj |-> FALSE, d |-> [value |-> <<"1">>]]

Raises == [kind |-> "raise", t |-> "", items |-> <<>>]
Prose == [kind |-> "prose", t |-> "", items |-> <<>>]
Fenced(items) == [kind |-> "fenced", t |-> "list", items |-> items]
JsonList(items) == [kind |-> "json", t |-> "list", items |-> items]
JsonObject(d) == [kind |-> "json", t |-> "dict", items |-> <<Obj(d)>>]

LLMOutcomes ==
  {Raises, Prose, Fenced(<<Obj(Entry1)>>), JsonObject(Entry1),
   JsonList(<<>>), JsonList(<<Scalar>>), JsonList(<<Obj(Entry1)>>),
   JsonList(<<Obj(Entry2), Obj(Entry3)>>)}

\* The values try_parse can return.
PyNone == [t |-> "None", items |-> <<>>]
PyList(items) == [t |-> "list", items |-> items]

\* Python truthiness of such a value ("if not parsed").
truthy(v) == v.t # "None" /\ v.items # <<>>

\* json.loads(content): only a bare JSON document deserializes.
json_loads(content) ==
  IF content.kind = "json"
  THEN [ok |-> TRUE, t |-> content.t, items |-> content.items]
  ELSE [ok |-> FALSE, t |-> "", items |-> <<>>]

\* The loop "for entry in parsed: entry.setdefault(...)": it raises on a value
\* that is not iterable and on an element that has no setdefault; iterating
\* an object visits its keys, which are strings.
with_defaults(items) ==
  [i \in 1..Len(items) |->
     setdefault(setdefault(items[i].d, "comment", <<>>), "amount_unit", <<>>)]

\* A try_parse that takes a fenced document for the document it wraps.
try_parse_lenient(outcome) ==
  IF outcome.kind = "raise" THEN [raised |-> TRUE, value |-> PyNone]
  ELSE IF /\ outcome.kind \in {"json", "fenced"}
          /\ outcome.t = "list"
          /\ \A i \in 1..Len(outcome.items) : outcome.items[i].obj
  THEN [raised |-> FALSE, value |-> PyList(with_defaults(outcome.items))]
  ELSE [raised |-> FALSE, value |-> PyNone]

\* try_parse(strict) given what the LLM call does.  The call and the read of
\* its content are outside the try block: an exception there propagates.
try_parse(outcome) ==
  IF outcome.kind = "raise" THEN [raised |-> TRUE, value |-> PyNone]
  ELSE LET doc == json_loads(outcome)
       IN IF ~doc.ok THEN [raised |-> FALSE, value |-> PyNone]
          ELSE IF doc.t = "list" /\ \A i \in 1..Len(doc.items) : doc.items[i].obj
          THEN [raised |-> FALSE, value |-> PyList(with_defaults(doc.items))]
          ELSE IF doc.t = "dict" /\ DOMAIN doc.items[1].d = {}
          THEN [raised |-> FALSE, value |-> [t |-> "dict", items |-> <<>>]]
          ELSE [raised |-> FALSE, value |-> PyNone]

\* A retry that repeats for as long as the result is falsy.
next_attempt_unbounded(strict, parsed) ==
  IF ~truthy(parsed) THEN "attempt2" ELSE "return"

\* Lines 131-135 of call_gpt_fallback: after try_parse(strict) returned
\* parsed, either the one strict retry or the return.
next_attempt(strict, parsed) ==
  IF ~strict /\ ~truthy(parsed) THEN "attempt2" ELSE "return"

\* What the model remembers of a response: whether the call raised, whether
\* the content was a bare JSON document, whether it was a document inside a
\* markdown fence, whether the bare document was an array of objects, and
\* how many elements the array had.
response_class(outcome) ==
  [raised |-> outcome.kind = "raise",
   json |-> outcome.kind = "json",
   fenced |-> outcome.kind = "fenced",
   array |-> /\ outcome.kind = "json"
             /\ outcome.t = "list"
             /\ \A i \in 1..Len(outcome.items) : outcome.items[i].obj,
   records |-> IF outcome.kind = "json" /\ outcome.t = "list" THEN Len(outcome.items) ELSE 0]

\* ------------------------------------------------------------ the sheet
Timestamp == <<"1", " ", "2">>

\* The row update_google_sheet builds.
sheet_row(data, author) ==
  << sanitize(Timestamp),
     sanitize(dict_get(data, "customer", <<>>)),
     sanitize(dict_get(data, "product", <<>>)),
     sanitize(dict_get(data, "amount_value", <<>>)),
     sanitize(dict_get(data, "amount_unit", <<>>)),
     sanitize(dict_get(data, "comment", <<>>)),
     sanitize(author) >>

\* A loop over gpt_response that stops at the first entry that fails.
loop_continues_until_failure(ok, last) == ok /\ ~last

\* Lines 173-178: the except clause logs the failure and the loop goes on to
\* the next entry, if there is one.
loop_continues(ok, last) == ~last

\* A count that goes up for every entry, written or not.
count_after_every_entry(count_logged, ok) == count_logged + 1

\* Lines 174-178: count_logged += 1 is inside the try, after the call of
\* update_google_sheet; an entry whose call raised is not counted.
count_after(count_logged, ok) == IF ok THEN count_logged + 1 ELSE count_logged

\* update_google_sheet(data, author): sheet.append_row appends the row or
\* raises.
update_google_sheet(rows, data, author, ok) ==
  IF ok THEN Append(rows, sheet_row(data, author)) ELSE rows

\* The replies of handle_message.
ReplyFailed == [kind |-> "could not process", logged |-> 0]
ReplyWarning == [kind |-> "data could not be written", logged |-> 0]
ReplySuccess(n) == [kind |-> "logged", logged |-> n]

\* ------------------------------------------------------------ inputs
\* The reference files at process start.
CustomerFiles ==
  {[readable |-> TRUE, text |-> <<" ", "ga", "\n", "\n">>],
   [readable |-> FALSE, text |-> <<"ga", "\n">>]}
ProductFiles ==
  {[readable |-> TRUE, text |-> <<"gb", "\n">>]}

\* The texts of the updates: a known customer and a product; a declared
\* customer; no separator; the same product declared twice; the marker
\* alone; a marker with no product name; a declaration with no separator.
Messages ==
  {<<"ga", ".", " ", "gb", " ", "5">>,
   <<"N", "e", "w", " ", "gc", ".", " ", "gb", " ", "5", "gk", "gg">>,
   <<"ga", " ", "gb", " ", "5">>,
   <<"ga", ".", "n", "e", "w", " ", "gl", " ", "1", "gc", " ", "n", "e", "w", " ", "gl", " ", "2">>,
   <<"n", "e", "w", ".">>,
   <<"ga", ".", "n", "e", "w", " ", " ", "5">>,
   <<"n", "e", "w", " ", "gl", " ", "5", " ">>}
Authors == {<<"gm", "\t", "gi">>}
Updates == [text : Messages, author : Authors]

\* The handler executions the dispatcher may have in flight; the application
\* is built without concurrent_updates, so it runs one at a time.
Handlers == {"h1", "h2"}
Sequential == {"h1"}

\* ------------------------------------------------------------ state
VARIABLES
  KNOWN_CUSTOMERS,   \* the in-memory customer list
  KNOWN_PRODUCTS,    \* the in-memory product list
  customers_file,    \* known_customers.txt
  products_file,     \* known_products.txt
  running,           \* the handler that occupies the event loop, or "none"
  delivered,         \* updates delivered so far
  pc,                \* each handler's position
  frame,             \* each handler's local variables
  requests,          \* per handler: the generation requests of its message
  submitted,         \* per handler: the entries handed to update_google_sheet
  sheet,             \* per handler: the rows its message appended to the sheet
  replies,           \* per handler: the replies to its message's author
  probe              \* a direct call of a function no handler calls

vars ==
  <<KNOWN_CUSTOMERS, KNOWN_PRODUCTS, customers_file, products_file,
    running, delivered, pc, frame, requests, submitted, sheet, replies, probe>>

store == <<KNOWN_CUSTOMERS, KNOWN_PRODUCTS, customers_file, products_file>>

NoProbe == [fn |-> "none", term |-> <<>>, sc |-> <<>>, known_list |-> <<>>, done |-> FALSE,
            out |-> [kind |-> "None", value |-> <<>>]]

NoFrame ==
  [message |-> <<>>, author |-> <<>>, customer_raw |-> <<>>, shortlist |-> <<>>,
   gpt_response |-> PyNone, next_entry |-> 1, count_logged |-> 0]

\* The state once the module is loaded: the lists read from their files, no
\* handler started.
Loaded ==
  /\ customers_file \in CustomerFiles
  /\ products_file \in ProductFiles
  /\ KNOWN_CUSTOMERS = load_list_from_file(customers_file)
  /\ KNOWN_PRODUCTS = load_list_from_file(products_file)
  /\ running = "none"
  /\ delivered = 0
  /\ pc = [h \in Handlers |-> "idle"]
  /\ frame = [h \in Handlers |-> NoFrame]
  /\ requests = [h \in Handlers |-> <<>>]
  /\ submitted = [h \in Handlers |-> <<>>]
  /\ sheet = [h \in Handlers |-> <<>>]
  /\ replies = [h \in Handlers |-> <<>>]

Init == Loaded /\ probe = NoProbe

\* ------------------------------------------------------------ learning
New == <<"n", "e", "w">>

\* A learning step that puts the declared customer at the head of the list.
learn_customer_at_head(known, file, message, ok) ==
  LET customer_raw == strip(split_first(message, "."))
      customer_raw_cleaned == strip(slice_from(customer_raw, 3))
  IN IF startswith(lower(customer_raw), New)
     THEN [known |-> <<customer_raw_cleaned>> \o known,
           file |-> append_to_file(file, customer_raw_cleaned, ok),
           customer_raw |-> customer_raw_cleaned,
           wrote |-> TRUE]
     ELSE [known |-> known, file |-> file, customer_raw |-> customer_raw,
           wrote |-> FALSE]

\* Lines 147-152: the customer prefix and, when it carries the marker, the
\* append of the name after it.  No membership test guards this append.
learn_customer(known, file, message, ok) ==
  LET customer_raw == strip(split_first(message, "."))
      customer_raw_cleaned == strip(slice_from(customer_raw, 3))
  IN IF startswith(lower(customer_raw), New)
     THEN [known |-> Append(known, customer_raw_cleaned),
           file |-> append_to_file(file, customer_raw_cleaned, ok),
           customer_raw |-> customer_raw_cleaned,
           wrote |-> TRUE]
     ELSE [known |-> known, file |-> file, customer_raw |-> customer_raw,
           wrote |-> FALSE]

\* A product loop that appends every declared product, known or not.
RECURSIVE learn_products_untested(_, _, _, _, _)
learn_products_untested(known, file, product_candidates, oks, i) ==
  IF i > Len(product_candidates) THEN [known |-> known, file |-> file]
  ELSE LET p == product_candidates[i]
           new_product == strip(p.name)
       IN IF startswith(lower(p.new), New)
          THEN learn_products_untested(Append(known, new_product),
                                       append_to_file(file, new_product, oks[i]),
                                       product_candidates, oks, i + 1)
          ELSE learn_products_untested(known, file, product_candidates, oks, i + 1)

\* Lines 158-163: the loop over product_candidates from candidate i on; oks[i]
\* says whether the file write for candidate i succeeds.
RECURSIVE learn_products(_, _, _, _, _)
learn_products(known, file, product_candidates, oks, i) ==
  IF i > Len(product_candidates) THEN [known |-> known, file |-> file]
  ELSE LET p == product_candidates[i]
           new_product == strip(p.name)
       IN IF startswith(lower(p.new), New) /\ \A k \in 1..Len(known) : known[k] # new_product
          THEN learn_products(Append(known, new_product),
                              append_to_file(file, new_product, oks[i]),
                              product_candidates, oks, i + 1)
          ELSE learn_products(known, file, product_candidates, oks, i + 1)

\* ------------------------------------------------------------ handle_message
Ended == {"replying", "raised"}

\* A handler that computes the shortlist from the customer list as it was
\* before the declared customer is appended.
Receive_shortlist_before_learning(h, update) ==
  /\ pc[h] = "idle"
  /\ running = "none"
  /\ delivered < MaxMessages
  /\ LET message == strip(update.text)
         product_candidates == findall(message)
     IN \E okc \in BOOLEAN, okp \in [1..Len(product_candidates) -> BOOLEAN] :
          LET c == learn_customer(KNOWN_CUSTOMERS, customers_file, message, okc)
              p == learn_products(KNOWN_PRODUCTS, products_file, product_candidates, okp, 1)
          IN \E sc \in ScoreTables(c.customer_raw, KNOWN_CUSTOMERS) :
               /\ KNOWN_CUSTOMERS' = c.known
               /\ customers_file' = c.file
               /\ KNOWN_PRODUCTS' = p.known
               /\ products_file' = p.file
               /\ frame' = [frame EXCEPT ![h] =
                    [NoFrame EXCEPT !.message = message,
                                    !.author = update.author,
                                    !.customer_raw = c.customer_raw,
                                    !.shortlist = get_shortlist(sc, KNOWN_CUSTOMERS)]]
  /\ delivered' = delivered + 1
  /\ running' = h
  /\ pc' = [pc EXCEPT ![h] = "attempt1"]
  /\ UNCHANGED <<requests, submitted, sheet, replies, probe>>

\* Lines 143-163 and the entry of call_gpt_fallback: the update is read, the
\* declared customer and products are learnt, the shortlist is computed.
Receive(h, update) ==
  /\ pc[h] = "idle"
  /\ running = "none"
  /\ delivered < MaxMessages
  /\ LET message == strip(update.text)
         product_candidates == findall(message)
     IN \E okc \in BOOLEAN, okp \in [1..Len(product_candidates) -> BOOLEAN] :
          LET c == learn_customer(KNOWN_CUSTOMERS, customers_file, message, okc)
              p == learn_products(KNOWN_PRODUCTS, products_file, product_candidates, okp, 1)
          IN \E sc \in ScoreTables(c.customer_raw, c.known) :
               /\ KNOWN_CUSTOMERS' = c.known
               /\ customers_file' = c.file
               /\ KNOWN_PRODUCTS' = p.known
               /\ products_file' = p.file
               /\ frame' = [frame EXCEPT ![h] =
                    [NoFrame EXCEPT !.message = message,
                                    !.author = update.author,
                                    !.customer_raw = c.customer_raw,
                                    !.shortlist = get_shortlist(sc, c.known)]]
  /\ delivered' = delivered + 1
  /\ running' = h
  /\ pc' = [pc EXCEPT ![h] = "attempt1"]
  /\ UNCHANGED <<requests, submitted, sheet, replies, probe>>

\* The generation request try_parse(strict) sends for handler h, and what
\* came back.
request(h, strict, outcome) ==
  [strict |-> strict, customers |-> frame[h].shortlist, products |-> KNOWN_PRODUCTS,
   response |-> response_class(outcome)]

\* An exception leaves handle_message: the handler ends with no reply.
Propagate(h) ==
  /\ pc' = [pc EXCEPT ![h] = "raised"]
  /\ running' = "none"
  /\ UNCHANGED <<frame, replies>>

\* reply_text(...) is called and awaited.
ReplyAndAwait(h, reply) ==
  /\ replies' = [replies EXCEPT ![h] = Append(@, reply)]
  /\ pc' = [pc EXCEPT ![h] = "replying"]
  /\ running' = "none"

\* After an attempt that did not raise: the retry, the failure notice of
\* lines 167-170, or the loop over the entries.
AfterAttempt(h, strict, parsed) ==
  /\ frame' = [frame EXCEPT ![h].gpt_response = parsed]
  /\ IF next_attempt(strict, parsed) = "attempt2"
     THEN /\ pc' = [pc EXCEPT ![h] = "attempt2"]
          /\ UNCHANGED <<running, replies>>
     ELSE IF ~truthy(parsed)
     THEN ReplyAndAwait(h, ReplyFailed)
     ELSE /\ pc' = [pc EXCEPT ![h] = "logging"]
          /\ UNCHANGED <<running, replies>>

\* Line 131: try_parse(strict=False).
FirstAttempt(h, outcome) ==
  /\ pc[h] = "attempt1"
  /\ requests' = [requests EXCEPT ![h] = Append(@, request(h, FALSE, outcome))]
  /\ LET r == try_parse(outcome)
     IN IF r.raised THEN Propagate(h) ELSE AfterAttempt(h, FALSE, r.value)
  /\ UNCHANGED <<store, delivered, submitted, sheet, probe>>

\* Line 133: try_parse(strict=True).
SecondAttempt(h, outcome) ==
  /\ pc[h] = "attempt2"
  /\ requests' = [requests EXCEPT ![h] = Append(@, request(h, TRUE, outcome))]
  /\ LET r == try_parse(outcome)
     IN IF r.raised THEN Propagate(h) ELSE AfterAttempt(h, TRUE, r.value)
  /\ UNCHANGED <<store, delivered, submitted, sheet, probe>>

\* Lines 173-183: one iteration of the loop over gpt_response, the append
\* succeeding or raising; after the last one, the reply.
LogEntry(h, ok) ==
  /\ pc[h] = "logging"
  /\ LET f == frame[h]
         entry == f.gpt_response.items[f.next_entry]
         count_logged == count_after(f.count_logged, ok)
         last == f.next_entry = Len(f.gpt_response.items)
     IN /\ sheet' = [sheet EXCEPT ![h] = update_google_sheet(@, entry, f.author, ok)]
        /\ submitted' = [submitted EXCEPT ![h] = Append(@, entry)]
        /\ frame' = [frame EXCEPT ![h].next_entry = @ + 1,
                                  ![h].count_logged = count_logged]
        /\ IF loop_continues(ok, last)
           THEN UNCHANGED <<pc, running, replies>>
           ELSE ReplyAndAwait(h, IF count_logged > 0 THEN ReplySuccess(count_logged)
                                 ELSE ReplyWarning)
  /\ UNCHANGED <<store, delivered, requests, probe>>

\* handle_message is over (it returned after the awaited reply, or the
\* exception reached the dispatcher); its frame is gone.
Return(h) ==
  /\ pc[h] \in Ended
  /\ running = "none"
  /\ pc' = [pc EXCEPT ![h] = "idle"]
  /\ frame' = [frame EXCEPT ![h] = NoFrame]
  /\ requests' = [requests EXCEPT ![h] = <<>>]
  /\ submitted' = [submitted EXCEPT ![h] = <<>>]
  /\ sheet' = [sheet EXCEPT ![h] = <<>>]
  /\ replies' = [replies EXCEPT ![h] = <<>>]
  /\ UNCHANGED <<store, running, delivered, probe>>

Next ==
  \/ \E h \in Sequential, update \in Updates : Receive(h, update)
  \/ \E h \in Sequential, outcome \in LLMOutcomes : FirstAttempt(h, outcome)
  \/ \E h \in Sequential, outcome \in LLMOutcomes : SecondAttempt(h, outcome)
  \/ \E h \in Sequential, ok \in BOOLEAN : LogEntry(h, ok)
  \/ \E h \in Sequential : Return(h)

Spec == Init /\ [][Next]_vars

\* ------------------------------------------------------------ overlapping handlers
\* Two executions of handle_message in flight at once.  A coroutine gives up
\* the event loop only at an await, and the only awaits of handle_message are
\* the reply_text calls at its end (call_gpt_fallback and append_row block):
\* a second execution can start while the first waits for its reply to be
\* sent, and at no other point.  Both updates carry the same text, which
\* declares a customer and a product that the lists do not hold.
ConcurrentMessages ==
  {<<"N", "e", "w", " ", "gc", ".", "n", "e", "w", " ", "gl", " ", "5">>}
ConcurrentUpdates == [text : ConcurrentMessages, author : Authors]

NextConcurrent ==
  \/ \E h \in Handlers, update \in ConcurrentUpdates : Receive(h, update)
  \/ \E h \in Handlers, outcome \in LLMOutcomes : FirstAttempt(h, outcome)
  \/ \E h \in Handlers, outcome \in LLMOutcomes : SecondAttempt(h, outcome)
  \/ \E h \in Handlers, ok \in BOOLEAN : LogEntry(h, ok)
  \/ \E h \in Handlers : Return(h)

SpecConcurrent == Init /\ [][NextConcurrent]_vars

\* ------------------------------------------------------------ fuzzy_match alone
\* fuzzy_match has no caller in bot.py; it is called here directly, on a term
\* and a list drawn from small sets, with every score table the scorer may
\* produce for them.
ProbeTerms == {<<>>, <<"ga">>, <<"gc">>}
ProbeLists ==
  {<<>>, << <<"ga">> >>, << <<"ga">>, <<"gb">> >>, << <<"gb">>, <<"ga">>, <<"gc">> >>}

FuzzyProbes ==
  {[NoProbe EXCEPT !.fn = "fuzzy_match", !.term = c[1], !.known_list = c[2], !.sc = c[3]] :
     c \in UNION {{<<tl[1], tl[2], sc>> : sc \in ScoreTables(tl[1], tl[2])} :
                    tl \in ProbeTerms \X ProbeLists}}

InitFuzzy == Loaded /\ probe \in FuzzyProbes

CallFuzzyMatch ==
  /\ probe.fn = "fuzzy_match"
  /\ ~probe.done
  /\ probe' = [probe EXCEPT !.done = TRUE,
                            !.out = fuzzy_match(probe.sc, probe.known_list)]
  /\ UNCHANGED <<store, running, delivered, pc, frame, requests, submitted, sheet, replies>>

NextFuzzy == CallFuzzyMatch

SpecFuzzy == InitFuzzy /\ [][NextFuzzy]_vars

\* ------------------------------------------------------------ get_shortlist alone
\* get_shortlist called directly on a term and a list: the empty list, a
\* list that holds a name twice, and a list longer than the limit, with
\* every score table the scorer may produce for them.
ShortlistLists ==
  {<<>>,
   << <<"ga">>, <<"gb">>, <<"ga">> >>,
   << <<"gb">>, <<"gl">>, <<"ga">>, <<"gr">>, <<"gc">>, <<"gm">> >>}

ShortlistProbes ==
  {[NoProbe EXCEPT !.fn = "get_shortlist", !.term = c[1], !.known_list = c[2], !.sc = c[3]] :
     c \in UNION {{<<tl[1], tl[2], sc>> : sc \in ScoreTables(tl[1], tl[2])} :
                    tl \in ProbeTerms \X ShortlistLists}}

InitShortlist == Loaded /\ probe \in ShortlistProbes

CallGetShortlist ==
  /\ probe.fn = "get_shortlist"
  /\ ~probe.done
  /\ probe' = [probe EXCEPT !.done = TRUE,
                            !.out = [kind |-> "list",
                                     value |-> get_shortlist(probe.sc, probe.known_list)]]
  /\ UNCHANGED <<store, running, delivered, pc, frame, requests, submitted, sheet, replies>>

NextShortlist == CallGetShortlist

SpecShortlist == InitShortlist /\ [][NextShortlist]_vars

\* ------------------------------------------------------------ the loop alone
\* handle_message at the head of its loop over gpt_response, for a parse
\* result of one entry in which one cell (a field of the entry, or the
\* author) is any text of up to MaxLen characters.
CellAlphabet == {"ga", " ", "\n", "\r", "\t"}
CellTexts == UNION {[1..n -> CellAlphabet] : n \in 0..MaxLen}
CellNames == {"customer", "product", "amount_value", "amount_unit", "comment", "author"}

LoopResponses ==
  {IF c[1] = "author" THEN [author |-> c[2], content |-> JsonList(<<Obj(Entry1)>>)]
   ELSE [author |-> <<"gm">>, content |-> JsonList(<<Obj([k \in {c[1]} |-> c[2]])>>)] :
     c \in CellNames \X CellTexts}

InitLoop ==
  /\ customers_file \in CustomerFiles
  /\ products_file \in ProductFiles
  /\ KNOWN_CUSTOMERS = load_list_from_file(customers_file)
  /\ KNOWN_PRODUCTS = load_list_from_file(products_file)
  /\ running = "h1"
  /\ delivered = 1
  /\ pc = [h \in Handlers |-> IF h = "h1" THEN "logging" ELSE "idle"]
  /\ \E r \in LoopResponses :
       /\ frame = [h \in Handlers |->
            IF h = "h1"
            THEN [NoFrame EXCEPT !.message = <<"ga", ".", " ", "gb", " ", "5">>,
                                 !.customer_raw = <<"ga">>,
                                 !.author = r.author,
                                 !.gpt_response = try_parse(r.content).value]
            ELSE NoFrame]
       /\ requests = [h \in Handlers |->
            IF h = "h1"
            THEN <<[strict |-> FALSE, customers |-> <<>>, products |-> KNOWN_PRODUCTS,
                    response |-> response_class(r.content)]>>
            ELSE <<>>]
  /\ submitted = [h \in Handlers |-> <<>>]
  /\ sheet = [h \in Handlers |-> <<>>]
  /\ replies = [h \in Handlers |-> <<>>]
  /\ probe = NoProbe

NextLoop ==
  \/ \E ok \in BOOLEAN : LogEntry("h1", ok)
  \/ Return("h1")

SpecLoop == InitLoop /\ [][NextLoop]_vars

\* ------------------------------------------------------------ claims
HasSeparator(message) == \E i \in 1..Len(message) : message[i] = "."

NoDuplicates(list) ==
  \A i, j \in 1..Len(list) : list[i] = list[j] => i = j

\* The response to request i of handler h was text that is not JSON.
NotJson(h, i) ==
  /\ ~requests[h][i].response.raised
  /\ ~requests[h][i].response.json

\* C1: a handled message never has more than 2 generation requests, whatever
\* the responses were.
C1_AtMostTwoRequests ==
  \A h \in Handlers : Len(requests[h]) <= 2

\* C1 witness: two requests were issued and the second response failed
\* validation as well.
C1_Witness ==
  \E h \in Handlers :
    /\ Len(requests[h]) = 2
    /\ ~requests[h][1].response.array
    /\ ~requests[h][2].response.array
    /\ ~requests[h][2].response.raised
    /\ pc[h] = "replying"

\* C2: every message whose handling is over has exactly one reply to its
\* author, whatever the LLM calls and the persistence calls did.
C2_EndedMessageHasOneReply ==
  \A h \in Handlers : pc[h] \in Ended => Len(replies[h]) = 1

\* C3: an LLM call that raises counts as a failed attempt: after a raising
\* first call the strict retry is next, after a raising second call the
\* result is empty and the handler goes on to the failure notice; no
\* exception leaves call_gpt_fallback.
C3_RaisingCallCountsAsAttempt ==
  \A h \in Handlers :
    /\ pc[h] # "raised"
    /\ (Len(requests[h]) = 1 /\ requests[h][1].response.raised) => pc[h] = "attempt2"
    /\ (Len(requests[h]) = 2 /\ requests[h][2].response.raised) =>
         (pc[h] = "replying" /\ ~truthy(frame[h].gpt_response))

\* C4: when both attempts returned text that is not JSON, the parse result
\* is empty, the author got the failure notice and nothing else, and the
\* message appended no row.
C4_TotalParserFailure ==
  \A h \in Handlers :
    (Len(requests[h]) = 2 /\ NotJson(h, 1) /\ NotJson(h, 2)) =>
      /\ pc[h] = "replying"
      /\ ~truthy(frame[h].gpt_response)
      /\ replies[h] = <<ReplyFailed>>
      /\ sheet[h] = <<>>
      /\ submitted[h] = <<>>

\* C4 witness: both attempts returned non-JSON text and the notice was sent.
C4_Witness ==
  \E h \in Handlers :
    /\ Len(requests[h]) = 2 /\ NotJson(h, 1) /\ NotJson(h, 2)
    /\ replies[h] = <<ReplyFailed>>

\* C5: starting from duplicate-free lists, neither reference list ever holds
\* a name twice.
C5_LearningIsIdempotent ==
  /\ NoDuplicates(KNOWN_CUSTOMERS)
  /\ NoDuplicates(KNOWN_PRODUCTS)

\* C6: the entries handed to update_google_sheet are the entries of the parse
\* result, each once and in order: the ones before next_entry while the loop
\* runs, all of them once the reply is out, whether or not an append failed.
C6_EveryEntrySubmittedOnce ==
  \A h \in Handlers :
    /\ pc[h] = "logging" =>
         /\ frame[h].next_entry <= Len(frame[h].gpt_response.items)
         /\ submitted[h] = SubSeq(frame[h].gpt_response.items, 1, frame[h].next_entry - 1)
    /\ (pc[h] = "replying" /\ truthy(frame[h].gpt_response)) =>
         submitted[h] = frame[h].gpt_response.items

\* C6 witness: a message with two entries whose first append failed and
\* whose second went through.
C6_Witness ==
  \E h \in Handlers :
    /\ pc[h] = "replying"
    /\ Len(submitted[h]) = 2
    /\ sheet[h] = <<sheet_row(submitted[h][2], frame[h].author)>>
    /\ sheet_row(submitted[h][1], frame[h].author) # sheet_row(submitted[h][2], frame[h].author)

\* C7: the second request is issued exactly when the first response did not
\* deserialize as an array of records (an array of zero records is one); it
\* is strict and the first is not.
C7_RetryExactlyOnDeserializationFailure ==
  \A h \in Handlers :
    /\ Len(requests[h]) = 2 =>
         /\ ~requests[h][1].response.array
         /\ ~requests[h][1].strict
         /\ requests[h][2].strict
    /\ (/\ Len(requests[h]) = 1
        /\ ~requests[h][1].response.raised
        /\ ~requests[h][1].response.array) => pc[h] = "attempt2"
    /\ (Len(requests[h]) = 1 /\ requests[h][1].response.array) => pc[h] # "attempt2"

\* C8: for a message with no "." the term handed to get_shortlist is the
\* empty string and the shortlist is empty.
C8_NoSeparatorGivesEmptyTerm ==
  \A h \in Handlers :
    (pc[h] # "idle" /\ ~HasSeparator(frame[h].message)) =>
      /\ frame[h].customer_raw = <<>>
      /\ frame[h].shortlist = <<>>

\* C9: fuzzy_match returns absent or a member of the list whose score
\* reaches the threshold, and for an empty list it returns absent without
\* failing.
C9_FuzzyMatchAbsentOrMember ==
  (probe.fn = "fuzzy_match" /\ probe.done) =>
    /\ probe.out.kind \in {"None", "match"}
    /\ probe.out.kind = "match" =>
         \E i \in 1..Len(probe.known_list) :
           probe.known_list[i] = probe.out.value /\ probe.sc[i] >= Threshold
    /\ probe.known_list = <<>> => probe.out.kind = "None"

\* The values update_google_sheet passes to sanitize, cell by cell.
raw_cells(data, author) ==
  << Timestamp, dict_get(data, "customer", <<>>), dict_get(data, "product", <<>>),
     dict_get(data, "amount_value", <<>>), dict_get(data, "amount_unit", <<>>),
     dict_get(data, "comment", <<>>), author >>

\* A text with no newline, carriage return or tab and no whitespace at
\* either end.
Clean(text) ==
  /\ \A i \in 1..Len(text) : text[i] \notin {"\n", "\r", "\t"}
  /\ text # <<>> => (text[1] \notin Whitespace /\ text[Len(text)] \notin Whitespace)

\* C10: the row built for every submitted entry has clean cells, whether its
\* append went through or not; every row appended has 7 cells, each cell is
\* clean, and each is sanitize applied to the value of one submitted entry
\* (or to the timestamp or the author).
C10_RowsAreSanitized ==
  /\ \A h \in Handlers : \A j \in 1..Len(submitted[h]) : \A k \in 1..7 :
       Clean(sheet_row(submitted[h][j], frame[h].author)[k])
  /\ \A h \in Handlers : \A r \in 1..Len(sheet[h]) :
    /\ Len(sheet[h][r]) = 7
    /\ \A k \in 1..7 : Clean(sheet[h][r][k])
    /\ \E j \in 1..Len(submitted[h]) : \A k \in 1..7 :
         sheet[h][r][k] = sanitize(raw_cells(submitted[h][j], frame[h].author)[k])

\* C10 witness: a row was appended for a value with whitespace at both ends
\* and a line break or a tab inside.
C10_Witness ==
  \E h \in Handlers : \E k \in 1..7 :
    /\ Len(sheet[h]) = 1 /\ Len(submitted[h]) = 1
    /\ LET raw == raw_cells(submitted[h][1], frame[h].author)[k]
       IN /\ Len(raw) = 3
          /\ raw[1] \in Whitespace
          /\ raw[2] = "ga"
          /\ raw[3] \in {"\n", "\t"}
          /\ sheet[h][1][k] = <<"ga">>

\* C11: every row appended to the sheet has a customer cell and a product
\* cell that are not empty; an entry whose customer or product is empty or
\* missing is written with text taken from the message instead.
C11_RowsNameCustomerAndProduct ==
  \A h \in Handlers : \A r \in 1..Len(sheet[h]) :
    /\ sheet[h][r][2] # <<>>
    /\ sheet[h][r][3] # <<>>

\* C12: a response that is a well-formed JSON array inside a markdown fence
\* is accepted on the attempt that received it: the parse result is that
\* array, no further request follows it and the failure notice is not sent.
C12_FencedArrayIsAccepted ==
  \A h \in Handlers : \A i \in 1..Len(requests[h]) :
    requests[h][i].response.fenced =>
      /\ i = Len(requests[h])
      /\ truthy(frame[h].gpt_response)
      /\ pc[h] \in {"logging", "replying"}
      /\ \A k \in 1..Len(replies[h]) : replies[h][k] # ReplyFailed

\* list a is the beginning of list b.
IsPrefix(a, b) == Len(a) <= Len(b) /\ SubSeq(b, 1, Len(a)) = a

\* C13: in every step each reference list keeps its earlier value as a
\* prefix (nothing is removed, reordered or edited), and a step that changes
\* a list is the learning step at the start of handle_message: the
\* generation attempts, the shortlist, the loop and the return change neither.
C13_ListsGrowByAppend ==
  [][/\ IsPrefix(KNOWN_CUSTOMERS, KNOWN_CUSTOMERS')
     /\ IsPrefix(KNOWN_PRODUCTS, KNOWN_PRODUCTS')
     /\ (KNOWN_CUSTOMERS' # KNOWN_CUSTOMERS \/ KNOWN_PRODUCTS' # KNOWN_PRODUCTS) =>
          \E h \in Handlers : pc[h] = "idle" /\ pc'[h] = "attempt1"]_vars

\* C13 witness: both lists have grown past what was loaded and the handler
\* of a later message has been through its attempts and its loop.
C13_Witness ==
  \E h \in Handlers :
    /\ pc[h] = "replying"
    /\ KNOWN_CUSTOMERS = << <<"ga">>, <<"gc">> >>
    /\ KNOWN_PRODUCTS = << <<"gb">>, <<"gl">> >>
    /\ Len(sheet[h]) > 0

\* The elements of a list.
Range(list) == {list[i] : i \in 1..Len(list)}

\* The customer a message declares: the name after the marker in its prefix.
DeclaredCustomers(message) ==
  LET prefix == strip(split_first(message, "."))
  IN IF startswith(lower(prefix), New) THEN {strip(slice_from(prefix, 3))} ELSE {}

\* The products a message declares: the names of the matches that carry the
\* marker.
DeclaredProducts(message) ==
  LET found == findall(message)
  IN {strip(found[i].name) :
        i \in {k \in 1..Len(found) : startswith(lower(found[k].new), New)}}

\* C14: while a message is handled, the customer it declares is in
\* KNOWN_CUSTOMERS and, when it has a name, in the shortlist computed for the
\* message; the products it declares are in KNOWN_PRODUCTS and in the product
\* list of every generation request of the message; and a name that is in a
\* list stays in it in every later step.
C14_DeclaredEntitiesAreVisible ==
  /\ [](\A h \in Handlers : pc[h] # "idle" =>
          /\ DeclaredCustomers(frame[h].message) \subseteq Range(KNOWN_CUSTOMERS)
          /\ DeclaredCustomers(frame[h].message) \ {<<>>} \subseteq Range(frame[h].shortlist)
          /\ DeclaredProducts(frame[h].message) \subseteq Range(KNOWN_PRODUCTS)
          /\ \A i \in 1..Len(requests[h]) :
               /\ DeclaredProducts(frame[h].message) \subseteq Range(requests[h][i].products)
               /\ requests[h][i].customers = frame[h].shortlist)
  /\ [][/\ Range(KNOWN_CUSTOMERS) \subseteq Range(KNOWN_CUSTOMERS')
         /\ Range(KNOWN_PRODUCTS) \subseteq Range(KNOWN_PRODUCTS')]_vars

\* C14 witness: the second message declares a customer and a product; both
\* were sent with its two requests, and the customer the first message
\* declared is still in the list.
C14_Witness ==
  \E h \in Handlers :
    /\ pc[h] = "replying"
    /\ delivered = 2
    /\ DeclaredCustomers(frame[h].message) = {<<"gl", " ", "5">>}
    /\ DeclaredProducts(frame[h].message) = {<<"gl">>}
    /\ Len(requests[h]) = 2
    /\ <<"gl", " ", "5">> \in Range(requests[h][2].customers)
    /\ <<"gl">> \in Range(requests[h][2].products)
    /\ KNOWN_CUSTOMERS = << <<"gc">>, <<"gl", " ", "5">> >>

\* How many times a name is in a list.
Count(name, list) == Cardinality({i \in 1..Len(list) : list[i] = name})

\* C15: when a handler starts on a message while another handler, whose
\* message declared the same new customer and the same new product, is still
\* waiting at its reply, each declared name is in its list exactly once: no
\* append is lost and none is made twice.
C15_ConcurrentDeclarationsAppendOnce ==
  \A h1, h2 \in Handlers :
    (h1 # h2 /\ pc[h1] = "replying" /\ pc[h2] # "idle") =>
      /\ \A n \in DeclaredCustomers(frame[h1].message) \cap DeclaredCustomers(frame[h2].message) :
           Count(n, KNOWN_CUSTOMERS) = 1
      /\ \A n \in DeclaredProducts(frame[h1].message) \cap DeclaredProducts(frame[h2].message) :
           Count(n, KNOWN_PRODUCTS) = 1

\* The score of a name of the probed list (equal names have equal scores).
ProbeScore(name) ==
  probe.sc[CHOOSE i \in 1..Len(probe.known_list) : probe.known_list[i] = name]

\* C16: get_shortlist returns at most 5 names, each a member of the list
\* with a score of at least 50, in non-increasing order of score; for the
\* empty list it returns the empty shortlist and does not fail.
C16_ShortlistIsBoundedAndSorted ==
  (probe.fn = "get_shortlist" /\ probe.done) =>
    LET out == probe.out.value
    IN /\ probe.out.kind = "list"
       /\ Len(out) <= 5
       /\ \A k \in 1..Len(out) :
            \E i \in 1..Len(probe.known_list) :
              probe.known_list[i] = out[k] /\ probe.sc[i] >= 50
       /\ \A k \in 1..(Len(out) - 1) : ProbeScore(out[k]) >= ProbeScore(out[k + 1])
       /\ probe.known_list = <<>> => out = <<>>

\* C16 witness: six names all score at least 50, not all the same; five of
\* them come back.
C16_Witness ==
  /\ probe.fn = "get_shortlist" /\ probe.done
  /\ Len(probe.known_list) = 6
  /\ \A i \in 1..6 : probe.sc[i] >= 50
  /\ Len(probe.out.value) = 5
  /\ ProbeScore(probe.out.value[1]) > ProbeScore(probe.out.value[5])

\* The non-blank lines of a file, stripped, whether or not it can be read.
FileNames(file) == stripped_nonblank(lines_of(file.text, <<>>))

\* The matches of the product pattern in a message that carry the marker.
MarkedMatches(message) ==
  {k \in 1..Len(findall(message)) : startswith(lower(findall(message)[k].new), New)}

\* C17: the product list, duplicate-free when loaded, never holds a name
\* twice, and neither does the products file; a name is written to the file
\* only when it is appended to the list, so every name in the file is in the
\* list.
C17_ProductsAreAppendedOnce ==
  /\ NoDuplicates(KNOWN_PRODUCTS)
  /\ NoDuplicates(FileNames(products_file))
  /\ Range(FileNames(products_file)) \subseteq Range(KNOWN_PRODUCTS)

\* C17 witness: a message that declares the same product in two places has
\* been learnt; the product is in the list and in the file once.
C17_Witness ==
  \E h \in Handlers :
    /\ pc[h] = "replying"
    /\ Cardinality(MarkedMatches(frame[h].message)) = 2
    /\ DeclaredProducts(frame[h].message) = {<<"gl">>}
    /\ Count(<<"gl">>, KNOWN_PRODUCTS) = 1
    /\ Count(<<"gl">>, FileNames(products_file)) = 1

\* C18: once the loop over a non-empty parse result is over there is one
\* reply; it is the success reply exactly when the message appended at least
\* one row, its count is then the number of rows the message appended, and
\* it is the warning exactly when no call of update_google_sheet went through.
C18_ReplyReportsRowsAppended ==
  \A h \in Handlers :
    (pc[h] = "replying" /\ truthy(frame[h].gpt_response)) =>
      /\ Len(replies[h]) = 1
      /\ replies[h][1].kind = "logged" <=> Len(sheet[h]) > 0
      /\ replies[h][1].kind = "logged" => replies[h][1].logged = Len(sheet[h])
      /\ replies[h][1] = ReplyWarning <=> Len(sheet[h]) = 0

\* C18 witness: of two entries one was written and one was not, and the
\* reply reports one.
C18_Witness ==
  \E h \in Handlers :
    /\ pc[h] = "replying"
    /\ Len(submitted[h]) = 2
    /\ Len(sheet[h]) = 1
    /\ replies[h] = <<ReplySuccess(1)>>

\* The names a step appended to a list.
Added(list, later) == SubSeq(later, Len(list) + 1, Len(later))

\* The text of the lines that hold the given names.
RECURSIVE LinesOf(_)
LinesOf(names) ==
  IF names = <<>> THEN <<>> ELSE Head(names) \o <<"\n">> \o LinesOf(Tail(names))

\* C19: every step that appends names to a reference list appends the same
\* names, one per line and in the same order, to the file of that list,
\* also when a write to the file fails; a step that appends nothing to a
\* list leaves its file as it was.
C19_FileFollowsMemory ==
  [][/\ customers_file'.text =
          customers_file.text \o LinesOf(Added(KNOWN_CUSTOMERS, KNOWN_CUSTOMERS'))
     /\ products_file'.text =
          products_file.text \o LinesOf(Added(KNOWN_PRODUCTS, KNOWN_PRODUCTS'))]_vars

\* C20: no entry of KNOWN_CUSTOMERS or KNOWN_PRODUCTS is the empty string,
\* in any reachable state.
C20_NamesAreNotEmpty ==
  /\ \A i \in 1..Len(KNOWN_CUSTOMERS) : KNOWN_CUSTOMERS[i] # <<>>
  /\ \A i \in 1..Len(KNOWN_PRODUCTS) : KNOWN_PRODUCTS[i] # <<>>

====
